---- MODULE Spec2Model ----
(***************************************************************************)
(* nerf: join the command-line words, fill them into a prompt template,    *)
(* POST the prompt to the chat-completions endpoint, print the answer and  *)
(* pipe it to xclip.  Text is modelled as sequences of one-character       *)
(* strings so that substitution and JSON decoding work on characters.      *)
(***************************************************************************)
EXTENDS Integers, Sequences, FiniteSets, TLC

VARIABLES pc, keySet, argv, input, prompt_template, prompt, response, reworded,
          requests, fileReads, extractCalls, stdout, xclip, exit, err

vars == <<pc, keySet, argv, input, prompt_template, prompt, response, reworded,
          requests, fileReads, extractCalls, stdout, xclip, exit, err>>

\* ------------------------------------------------------------------ bounds
MaxPieces == 3
MaxChoices == 2

\* ------------------------------------------------------------ text helpers
RECURSIVE Concat(_)
Concat(ss) == IF ss = <<>> THEN <<>> ELSE Head(ss) \o Concat(Tail(ss))

IsPrefixAt(s, pat, i) ==
    /\ i >= 1
    /\ i + Len(pat) - 1 <= Len(s)
    /\ \A k \in 1..Len(pat) : s[i + k - 1] = pat[k]

\* Vec<String>::join(" ")
RECURSIVE Join(_, _)
Join(words, sep) ==
    IF words = <<>> THEN <<>>
    ELSE IF Len(words) = 1 THEN words[1]
    ELSE words[1] \o sep \o Join(Tail(words), sep)

\* the literal placeholder of main.rs:69
Placeholder == <<"{", "i", "n", "p", "u", "t", "}">>

\* str::match_indices: start positions of the successive non-overlapping
\* matches of pat in s, searching left to right from position from
RECURSIVE MatchIndices(_, _, _)
MatchIndices(s, pat, from) ==
    IF from + Len(pat) - 1 > Len(s) THEN <<>>
    ELSE IF IsPrefixAt(s, pat, from)
         THEN <<from>> \o MatchIndices(s, pat, from + Len(pat))
         ELSE MatchIndices(s, pat, from + 1)

\* the loop of str::replace: copy the text between matches, push `to` for
\* every match, then copy the tail
RECURSIVE ReplaceLoop(_, _, _, _, _)
ReplaceLoop(s, patLen, to, starts, last_end) ==
    IF starts = <<>> THEN SubSeq(s, last_end, Len(s))
    ELSE SubSeq(s, last_end, Head(starts) - 1) \o to
         \o ReplaceLoop(s, patLen, to, Tail(starts), Head(starts) + patLen)

\* str::replacen(from, to, 1): only the first occurrence
ReplaceFirstOnly(s, from, to) ==
    LET starts == MatchIndices(s, from, 1) IN
    ReplaceLoop(s, Len(from), to, IF starts = <<>> THEN <<>> ELSE <<Head(starts)>>, 1)

Replace(s, from, to) == ReplaceLoop(s, Len(from), to, MatchIndices(s, from, 1), 1)

\* ------------------------------------------------------- serde_json::Value
QUOTE == "\""
BSL == "\\"
NL == "\n"
Digits == <<"0", "1", "2", "3", "4", "5", "6", "7", "8", "9">>

JNull == [t |-> "null"]
JBool(b) == [t |-> "bool", b |-> b]
JNum(n) == [t |-> "num", n |-> n]
JStr(s) == [t |-> "str", s |-> s]
JArr(a) == [t |-> "arr", a |-> a]
JObj(o) == [t |-> "obj", o |-> o]
EmptyMap == [k \in {} |-> JNull]

\* Map::insert: a later member with the same key replaces the earlier one
MapInsert(m, k, v) == (k :> v) @@ m

None == [some |-> FALSE]
Some(v) == [some |-> TRUE, v |-> v]

\* impl Index<&str> for Value: Null unless an object that has the key
IndexKey(v, key) ==
    IF v.t = "obj" /\ key \in DOMAIN v.o THEN v.o[key] ELSE JNull

\* the index counted from the end of the array
GetIdxFromEnd(v, n) ==
    IF v.t = "arr" /\ n + 1 <= Len(v.a) THEN Some(v.a[Len(v.a) - n]) ELSE None

\* Value::get(usize), zero-based: None unless an array that long
GetIdx(v, n) ==
    IF v.t = "arr" /\ n + 1 <= Len(v.a) THEN Some(v.a[n + 1]) ELSE None

\* as_str().unwrap_or_default(): anything that is not a string reads as ""
AsStrOrDefault(v) == Some(IF v.t = "str" THEN v.s ELSE <<>>)

\* Value::as_str
AsStr(v) == IF v.t = "str" THEN Some(v.s) ELSE None

\* ------------------------------------------------- serde_json::from_str
\* Recursive descent over the characters, as serde_json's Deserializer does.
\* Covered grammar: objects, arrays, strings with the escapes \" \\ \/ \n \t,
\* null, true, false and unsigned integers; anything else is a syntax error.
PFail == [ok |-> FALSE]
POk(v, i) == [ok |-> TRUE, v |-> v, i |-> i]

IsWs(c) == c \in {" ", NL, "\t", "\r"}
IsDigit(c) == \E k \in 1..10 : Digits[k] = c
DigitVal(c) == (CHOOSE k \in 1..10 : Digits[k] = c) - 1

RECURSIVE SkipWs(_, _)
SkipWs(s, i) == IF i <= Len(s) /\ IsWs(s[i]) THEN SkipWs(s, i + 1) ELSE i

\* i is the position after the opening quote; acc the decoded characters
RECURSIVE PString(_, _, _)
PString(s, i, acc) ==
    IF i > Len(s) THEN PFail
    ELSE IF s[i] = QUOTE THEN POk(acc, i + 1)
    ELSE IF s[i] = BSL THEN
        IF i + 1 > Len(s) THEN PFail
        ELSE IF s[i + 1] \in {QUOTE, BSL, "/"} THEN PString(s, i + 2, Append(acc, s[i + 1]))
        ELSE IF s[i + 1] = "n" THEN PString(s, i + 2, Append(acc, NL))
        ELSE IF s[i + 1] = "t" THEN PString(s, i + 2, Append(acc, "\t"))
        ELSE PFail
    ELSE IF s[i] \in {NL, "\t", "\r"} THEN PFail
    ELSE PString(s, i + 1, Append(acc, s[i]))

RECURSIVE PDigits(_, _, _)
PDigits(s, i, acc) ==
    IF i <= Len(s) /\ IsDigit(s[i]) THEN PDigits(s, i + 1, acc * 10 + DigitVal(s[i]))
    ELSE POk(JNum(acc), i)

\* a leading 0 may not be followed by another digit
PNumber(s, i) ==
    IF s[i] = "0"
    THEN IF i + 1 <= Len(s) /\ IsDigit(s[i + 1]) THEN PFail ELSE POk(JNum(0), i + 1)
    ELSE PDigits(s, i, 0)

PIdent(s, i, word, v) == IF IsPrefixAt(s, word, i) THEN POk(v, i + Len(word)) ELSE PFail

RECURSIVE PValue(_, _), PElems(_, _, _), PMembers(_, _, _)
PValue(s, i) ==
    LET j == SkipWs(s, i) IN
    IF j > Len(s) THEN PFail
    ELSE IF s[j] = QUOTE THEN
        LET r == PString(s, j + 1, <<>>) IN
        IF r.ok THEN POk(JStr(r.v), r.i) ELSE PFail
    ELSE IF s[j] = "[" THEN
        LET k == SkipWs(s, j + 1) IN
        IF k <= Len(s) /\ s[k] = "]" THEN POk(JArr(<<>>), k + 1)
        ELSE PElems(s, j + 1, <<>>)
    ELSE IF s[j] = "{" THEN
        LET k == SkipWs(s, j + 1) IN
        IF k <= Len(s) /\ s[k] = "}" THEN POk(JObj(EmptyMap), k + 1)
        ELSE PMembers(s, j + 1, EmptyMap)
    ELSE IF s[j] = "n" THEN PIdent(s, j, <<"n", "u", "l", "l">>, JNull)
    ELSE IF s[j] = "t" THEN PIdent(s, j, <<"t", "r", "u", "e">>, JBool(TRUE))
    ELSE IF s[j] = "f" THEN PIdent(s, j, <<"f", "a", "l", "s", "e">>, JBool(FALSE))
    ELSE IF IsDigit(s[j]) THEN PNumber(s, j)
    ELSE PFail

PElems(s, i, acc) ==
    LET r == PValue(s, i) IN
    IF ~r.ok THEN PFail
    ELSE LET k == SkipWs(s, r.i) IN
         IF k > Len(s) THEN PFail
         ELSE IF s[k] = "," THEN PElems(s, k + 1, Append(acc, r.v))
         ELSE IF s[k] = "]" THEN POk(JArr(Append(acc, r.v)), k + 1)
         ELSE PFail

PMembers(s, i, acc) ==
    LET j == SkipWs(s, i) IN
    IF j > Len(s) \/ s[j] # QUOTE THEN PFail
    ELSE LET ks == PString(s, j + 1, <<>>) IN
         IF ~ks.ok THEN PFail
         ELSE LET c == SkipWs(s, ks.i) IN
              IF c > Len(s) \/ s[c] # ":" THEN PFail
              ELSE LET r == PValue(s, c + 1) IN
                   IF ~r.ok THEN PFail
                   ELSE LET k == SkipWs(s, r.i) IN
                        IF k > Len(s) THEN PFail
                        ELSE IF s[k] = "," THEN PMembers(s, k + 1, MapInsert(acc, ks.v, r.v))
                        ELSE IF s[k] = "}" THEN POk(JObj(MapInsert(acc, ks.v, r.v)), k + 1)
                        ELSE PFail

\* one value, then only whitespace up to the end of the text
FromStr(s) ==
    LET r == PValue(s, 1) IN
    IF ~r.ok THEN PFail
    ELSE IF SkipWs(s, r.i) <= Len(s) THEN PFail
    ELSE r

\* ------------------------------------------------ extract_reworded_text
Ok(v) == [ok |-> TRUE, val |-> v]
\* an eyre error returned up to main ends the process with code 1,
\* a panic (expect/unwrap) with code 101
Err(msg, status) == [ok |-> FALSE, err |-> [msg |-> msg, status |-> status], code |-> 1]
Panic(msg) == [ok |-> FALSE, err |-> [msg |-> msg, status |-> 0], code |-> 101]

K_choices == <<"c", "h", "o", "i", "c", "e", "s">>
K_message == <<"m", "e", "s", "s", "a", "g", "e">>
K_content == <<"c", "o", "n", "t", "e", "n", "t">>

extract_reworded_text(body) ==
    LET response_json == FromStr(body) IN
    IF ~response_json.ok THEN Err("Failed to parse API response as JSON", 0)
    ELSE LET choice == GetIdx(IndexKey(response_json.v, K_choices), 0) IN
         IF ~choice.some THEN Err("Failed to extract reworded text from response", 0)
         ELSE LET content == AsStr(IndexKey(IndexKey(choice.v, K_message), K_content)) IN
              IF content.some THEN Ok(content.v)
              ELSE Err("Failed to extract reworded text from response", 0)

\* ------------------------------------------- the remote side: wire format
\* What the server writes for a document; gap is the whitespace it puts
\* between tokens.  Strings are escaped as JSON requires.
EscChar(c) ==
    IF c = QUOTE THEN <<BSL, QUOTE>>
    ELSE IF c = BSL THEN <<BSL, BSL>>
    ELSE IF c = NL THEN <<BSL, "n">>
    ELSE <<c>>

RECURSIVE Esc(_)
Esc(s) == IF s = <<>> THEN <<>> ELSE EscChar(Head(s)) \o Esc(Tail(s))

RECURSIVE NumChars(_)
NumChars(n) ==
    IF n < 10 THEN <<Digits[n + 1]>>
    ELSE NumChars(n \div 10) \o <<Digits[(n % 10) + 1]>>

RECURSIVE Ser(_, _), SerElems(_, _), SerMembers(_, _, _)
Ser(v, gap) ==
    CASE v.t = "null" -> <<"n", "u", "l", "l">>
      [] v.t = "bool" -> IF v.b THEN <<"t", "r", "u", "e">> ELSE <<"f", "a", "l", "s", "e">>
      [] v.t = "num" -> NumChars(v.n)
      [] v.t = "str" -> <<QUOTE>> \o Esc(v.s) \o <<QUOTE>>
      [] v.t = "arr" -> IF v.a = <<>> THEN <<"[", "]">>
                        ELSE <<"[">> \o gap \o SerElems(v.a, gap) \o gap \o <<"]">>
      [] v.t = "obj" -> IF DOMAIN v.o = {} THEN <<"{", "}">>
                        ELSE <<"{">> \o gap \o SerMembers(v.o, DOMAIN v.o, gap) \o gap \o <<"}">>

SerElems(a, gap) ==
    IF a = <<>> THEN <<>>
    ELSE IF Len(a) = 1 THEN Ser(a[1], gap)
    ELSE Ser(a[1], gap) \o <<",">> \o gap \o SerElems(Tail(a), gap)

SerMembers(o, keys, gap) ==
    IF keys = {} THEN <<>>
    ELSE LET k == CHOOSE x \in keys : TRUE
             rest == keys \ {k}
         IN <<QUOTE>> \o Esc(k) \o <<QUOTE, ":">> \o gap \o Ser(o[k], gap)
            \o (IF rest = {} THEN <<>> ELSE <<",">> \o gap \o SerMembers(o, rest, gap))

\* ------------------------------------------------------------------ inputs
SeqsUpTo(S, n) == UNION {[1..k -> S] : k \in 0..n}

X_ok == <<"O", "k", ".">>
X_ws == <<" ", "a", " ", " ", "b", NL, QUOTE, BSL, " ">>
K_role == <<"r", "o", "l", "e">>
K_id == <<"i", "d">>
K_error == <<"e", "r", "r", "o", "r">>
K_data == <<"d", "a", "t", "a">>

NoDoc == [t |-> "invalid"]
GoodChoice == JObj(K_message :> JObj(K_content :> JStr(X_ok)))
GoodDoc == JObj(K_choices :> JArr(<<GoodChoice>>))
ErrorDoc == JObj(K_error :> JStr(<<"n", "o">>))
ModelsDoc == JObj(K_data :> JArr(<<>>))
HtmlBody == <<"<", "h", "t", "m", "l", ">">>

ContentVals == {JStr(X_ok), JStr(X_ws), JStr(<<>>), JNull, JNum(1)}
MessageVals ==
    {JObj(K_content :> c) : c \in ContentVals}
    \cup {JObj(K_role :> JStr(<<"a">>) @@ K_content :> JStr(X_ws)),
          JObj(EmptyMap), JNull, JStr(X_ok)}
ChoiceVals ==
    {JObj(K_message :> m) : m \in MessageVals}
    \cup {JObj(EmptyMap), JNull, JStr(X_ok)}
ChoicesVals ==
    {JArr(a) : a \in SeqsUpTo(ChoiceVals, MaxChoices)}
    \cup {JNull, JStr(X_ok), JObj(<<"0">> :> GoodChoice)}
Docs ==
    {JObj(K_choices :> c) : c \in ChoicesVals}
    \cup {JObj(K_id :> JStr(<<"7">>) @@ K_choices :> JArr(<<GoodChoice>>)),
          JObj(EmptyMap), ErrorDoc, JArr(<<GoodChoice>>), JNull, JStr(X_ok)}
MainDocs ==
    {GoodDoc, ErrorDoc, JObj(K_choices :> JArr(<<>>)),
     JObj(K_choices :> JArr(<<JObj(K_message :> JObj(K_content :> JStr(X_ws))), GoodChoice>>))}

Gaps == {<<>>, <<NL, " ">>}
Statuses == {199, 200, 201, 299, 300, 401, 500}

\* an HTTP exchange as the client sees it: did send() return a response, its
\* status, can the body be read, the body text, and the document the server
\* serialised into it (NoDoc when the body is not JSON)
Exchange(sendOk, status, textOk, body, doc) ==
    [sendOk |-> sendOk, status |-> status, textOk |-> textOk, body |-> body, doc |-> doc]
NoExchange == Exchange(FALSE, 0, FALSE, <<>>, NoDoc)
DropLast(s) == SubSeq(s, 1, Len(s) - 1)

SendOutcomes(docs) ==
    {NoExchange}
    \cup {Exchange(TRUE, 200, TRUE, Ser(d, g), d) : d \in docs, g \in Gaps}
    \cup {Exchange(TRUE, 200, TRUE, DropLast(Ser(d, <<>>)), NoDoc) : d \in docs}
    \cup {Exchange(TRUE, 200, TRUE, Ser(d, <<>>) \o <<"}">>, NoDoc) : d \in docs}
    \cup {Exchange(TRUE, 200, TRUE, b, NoDoc) : b \in {<<>>, HtmlBody}}
    \cup {Exchange(TRUE, st, TRUE, Ser(d, <<>>), d) : st \in Statuses \ {200}, d \in {GoodDoc, ErrorDoc}}
    \cup {Exchange(TRUE, st, FALSE, <<>>, NoDoc) : st \in {200, 401}}

KeyOutcomes ==
    {NoExchange,
     Exchange(TRUE, 200, TRUE, Ser(ModelsDoc, <<>>), ModelsDoc),
     Exchange(TRUE, 200, TRUE, HtmlBody, NoDoc),
     Exchange(TRUE, 200, FALSE, <<>>, NoDoc),
     Exchange(TRUE, 401, TRUE, Ser(ErrorDoc, <<>>), ErrorDoc)}

W_fix == <<"f", "i", "x">>
W_it == <<"i", "t">>
A_help == <<"-", "-", "h", "e", "l", "p">>
A_h == <<"-", "h">>
A_version == <<"-", "-", "v", "e", "r", "s", "i", "o", "n">>
A_V == <<"-", "V">>
ArgvSet ==
    {<<>>, <<W_fix>>, <<W_fix, W_it>>, <<Placeholder>>,
     <<A_help>>, <<W_fix, A_h>>, <<A_version>>, <<<<"-", "x">>>>}

T_rewrite == <<"R", ":", " ">> \o Placeholder
MainTemplates == {T_rewrite, <<"R", ":">>, Placeholder \o <<"+">> \o Placeholder}

Pieces == {Placeholder, <<"{">>, <<"}">>, <<"a", " ">>,
           <<"{", "i", "n", "p", "u", "t">>, <<"i", "n", "p", "u", "t", "}">>}
Templates == {Concat(ps) : ps \in SeqsUpTo(Pieces, MaxPieces)}
FillArgvs == {<<W_fix>>, <<W_fix, W_it>>, <<Placeholder>>, <<<<"}">>>>, <<<<>>>>}

\* --------------------------------------------------------------- functions
\* the upper end of the 2xx range forgotten
IsSuccessNoUpper(status) == status >= 200

\* http::StatusCode::is_success
IsSuccess(status) == status >= 200 /\ status < 300

\* pretty_print_json: parse, then print serde_json's pretty form (the
\* indentation depth is not modelled, only the line breaks between tokens)
pretty_print_json(json_str) ==
    LET value == FromStr(json_str) IN
    IF value.ok THEN Ok(Ser(value.v, <<NL, " ">>))
    ELSE Err("serde_json::Error", 0)

\* test_api_key on the exchange o; the unwrap of pretty_print_json panics
test_api_key(o) ==
    IF ~o.sendOk THEN Err("reqwest: send failed", 0)
    ELSE IF IsSuccess(o.status) THEN
        IF ~o.textOk THEN Err("reqwest: body read failed", 0)
        ELSE LET p == pretty_print_json(o.body) IN
             IF p.ok THEN p ELSE Panic("unwrap on a serde_json error")
    ELSE Err("API key test failed with status", o.status)

\* clap's argument scan, left to right: a help or version flag ends the
\* process with code 0, an unknown flag or no word at all with code 2
RECURSIVE ClapScan(_, _)
ClapScan(args, words) ==
    IF args = <<>> THEN
        IF words = <<>> THEN [kind |-> "usage", words |-> <<>>]
        ELSE [kind |-> "ok", words |-> words]
    ELSE LET a == Head(args) IN
         IF a \in {A_help, A_h} THEN [kind |-> "help", words |-> <<>>]
         ELSE IF a \in {A_version, A_V} THEN [kind |-> "version", words |-> <<>>]
         ELSE IF a # <<>> /\ a[1] = "-" THEN [kind |-> "usage", words |-> <<>>]
         ELSE ClapScan(Tail(args), Append(words, a))

\* load_prompt on the outcome f of fs::read_to_string
load_prompt(f) ==
    IF f.ok THEN Ok(f.content) ELSE Err("Failed to read prompt file", 0)

\* does send_to_chatgpt get as far as extract_reworded_text
ReachesExtract(o) == o.sendOk /\ IsSuccess(o.status) /\ o.textOk

send_to_chatgpt(o) ==
    IF ~o.sendOk THEN Err("Failed to send request", 0)
    ELSE IF ~IsSuccess(o.status) THEN Err("ChatGPT API call failed with status", o.status)
    ELSE IF ~o.textOk THEN Err("Failed to read response text", 0)
    ELSE extract_reworded_text(o.body)

\* the xclip child: spawned, what its stdin has received, whether it was
\* waited for, its exit status (-1 while unknown)
Proc(spawned, stdin, waited, status) ==
    [spawned |-> spawned, stdin |-> stdin, waited |-> waited, status |-> status]
NoProc == Proc(FALSE, <<>>, FALSE, -1)

ClipOutcome(spawnOk, written, writeOk, waitOk, status) ==
    [spawnOk |-> spawnOk, written |-> written, writeOk |-> writeOk,
     waitOk |-> waitOk, status |-> status]
ClipOutcomes(text) ==
    {ClipOutcome(FALSE, 0, FALSE, FALSE, -1)}
    \cup {ClipOutcome(TRUE, n, FALSE, FALSE, -1) : n \in {0, Len(text) - 1} \cap (0..Len(text) - 1)}
    \cup {ClipOutcome(TRUE, Len(text), TRUE, FALSE, -1)}
    \cup {ClipOutcome(TRUE, Len(text), TRUE, TRUE, st) : st \in {0, 1}}

\* the exit status of xclip not looked at
copy_to_clipboard_unchecked(text, o) ==
    IF ~o.spawnOk THEN
        [res |-> Err("Failed to start xclip. Is it installed?", 0), proc |-> NoProc]
    ELSE IF ~o.writeOk THEN
        [res |-> Err("io: write to xclip stdin failed", 0),
         proc |-> Proc(TRUE, SubSeq(text, 1, o.written), FALSE, -1)]
    ELSE IF ~o.waitOk THEN
        [res |-> Err("io: wait failed", 0), proc |-> Proc(TRUE, text, FALSE, -1)]
    ELSE [res |-> Ok(<<>>), proc |-> Proc(TRUE, text, TRUE, o.status)]

\* copy_to_clipboard: the result and the state the child is left in.  The
\* child is spawned with a piped stdin, so the branch for a missing stdin
\* handle is never taken.  A failed write_all leaves a prefix in the pipe;
\* wait closes the pipe before waiting.
copy_to_clipboard(text, o) ==
    IF ~o.spawnOk THEN
        [res |-> Err("Failed to start xclip. Is it installed?", 0), proc |-> NoProc]
    ELSE IF ~o.writeOk THEN
        [res |-> Err("io: write to xclip stdin failed", 0),
         proc |-> Proc(TRUE, SubSeq(text, 1, o.written), FALSE, -1)]
    ELSE IF ~o.waitOk THEN
        [res |-> Err("io: wait failed", 0), proc |-> Proc(TRUE, text, FALSE, -1)]
    ELSE IF o.status # 0 THEN
        [res |-> Err("xclip process failed with status", o.status),
         proc |-> Proc(TRUE, text, TRUE, o.status)]
    ELSE [res |-> Ok(<<>>), proc |-> Proc(TRUE, text, TRUE, 0)]

\* ------------------------------------------------------------------- main
NoErr == [msg |-> "", status |-> 0]
Running == -1
GetModels == [method |-> "GET", url |-> "/v1/models", content |-> <<>>]
PostCompletions(p) == [method |-> "POST", url |-> "/v1/chat/completions", content |-> p]
Line(what, text) == [what |-> what, text |-> text]

\* the ? forgotten: main carries on whatever the result
NextPcNoReturn(r, next) == next

\* the ? operator: main goes on after Ok and returns at once after Err
NextPc(r, next) == IF r.ok THEN next ELSE "exited"

Try(r, next) ==
    /\ pc' = NextPc(r, next)
    /\ exit' = IF r.ok THEN exit ELSE r.code
    /\ err' = IF r.ok THEN err ELSE r.err

Init ==
    /\ pc = "init_logger"
    /\ keySet \in BOOLEAN
    /\ argv \in ArgvSet
    /\ input = <<>>
    /\ prompt_template = <<>>
    /\ prompt = <<>>
    /\ response = NoExchange
    /\ reworded = <<>>
    /\ requests = <<>>
    /\ fileReads = 0
    /\ extractCalls = 0
    /\ stdout = <<>>
    /\ xclip = NoProc
    /\ exit = Running
    /\ err = NoErr

\* main.rs:58, reads RUST_LOG only
InitLogger ==
    /\ pc = "init_logger"
    /\ pc' = "test_api_key"
    /\ UNCHANGED <<keySet, argv, input, prompt_template, prompt, response, reworded,
                   requests, fileReads, extractCalls, stdout, xclip, exit, err>>

\* the key read with unwrap_or_default: an absent key is sent as ""
TestApiKeyNoExpect ==
    /\ pc = "test_api_key"
    /\ \E o \in KeyOutcomes :
       LET r == test_api_key(o) IN
       /\ requests' = Append(requests, GetModels)
       /\ stdout' = IF r.ok THEN Append(stdout, Line("models", r.val)) ELSE stdout
       /\ Try(r, "cli_parse")
    /\ UNCHANGED <<keySet, argv, input, prompt_template, prompt, response, reworded,
                   fileReads, extractCalls, xclip>>

\* main.rs:60: the first use of CHATGPT_API_KEY runs the lazy initialiser,
\* whose expect panics when the variable is absent; then the key check
TestApiKey ==
    /\ pc = "test_api_key"
    /\ IF ~keySet
       THEN /\ Try(Panic("CHATGPT_API_KEY not set in environment"), "cli_parse")
            /\ UNCHANGED <<requests, stdout>>
       ELSE \E o \in KeyOutcomes :
            LET r == test_api_key(o) IN
            /\ requests' = Append(requests, GetModels)
            /\ stdout' = IF r.ok THEN Append(stdout, Line("models", r.val)) ELSE stdout
            /\ Try(r, "cli_parse")
    /\ UNCHANGED <<keySet, argv, input, prompt_template, prompt, response, reworded,
                   fileReads, extractCalls, xclip>>

\* main.rs:62-64
CliParse ==
    /\ pc = "cli_parse"
    /\ LET cli == ClapScan(argv, <<>>) IN
       CASE cli.kind = "ok" ->
              /\ input' = Join(cli.words, <<" ">>)
              /\ pc' = "load_prompt"
              /\ UNCHANGED <<stdout, exit, err>>
         [] cli.kind \in {"help", "version"} ->
              /\ stdout' = Append(stdout, Line(cli.kind, <<>>))
              /\ pc' = "exited"
              /\ exit' = 0
              /\ UNCHANGED <<input, err>>
         [] cli.kind = "usage" ->
              /\ pc' = "exited"
              /\ exit' = 2
              /\ err' = [msg |-> "clap: usage error", status |-> 0]
              /\ UNCHANGED <<input, stdout>>
    /\ UNCHANGED <<keySet, argv, prompt_template, prompt, response, reworded,
                   requests, fileReads, extractCalls, xclip>>

\* main.rs:66-67
LoadPrompt(templates) ==
    /\ pc = "load_prompt"
    /\ \E f \in {[ok |-> FALSE, content |-> <<>>]} \cup {[ok |-> TRUE, content |-> t] : t \in templates} :
       LET r == load_prompt(f) IN
       /\ fileReads' = fileReads + 1
       /\ prompt_template' = IF r.ok THEN r.val ELSE prompt_template
       /\ Try(r, "fill")
    /\ UNCHANGED <<keySet, argv, input, prompt, response, reworded, requests,
                   extractCalls, stdout, xclip>>

\* main.rs:69-72
FillPrompt ==
    /\ pc = "fill"
    /\ prompt' = Replace(prompt_template, Placeholder, input)
    /\ stdout' = Append(stdout, Line("stars", <<>>))
    /\ pc' = "send"
    /\ UNCHANGED <<keySet, argv, input, prompt_template, response, reworded, requests,
                   fileReads, extractCalls, xclip, exit, err>>

\* main.rs:74
SendToChatgpt(docs) ==
    /\ pc = "send"
    /\ \E o \in SendOutcomes(docs) :
       LET r == send_to_chatgpt(o) IN
       /\ requests' = Append(requests, PostCompletions(prompt))
       /\ response' = o
       /\ extractCalls' = IF ReachesExtract(o) THEN extractCalls + 1 ELSE extractCalls
       /\ reworded' = IF r.ok THEN r.val ELSE reworded
       /\ Try(r, "print")
    /\ UNCHANGED <<keySet, argv, input, prompt_template, prompt, fileReads, stdout, xclip>>

\* main.rs:75-77
PrintReworded ==
    /\ pc = "print"
    /\ stdout' = Append(stdout, Line("reworded", reworded))
    /\ pc' = "clipboard"
    /\ UNCHANGED <<keySet, argv, input, prompt_template, prompt, response, reworded,
                   requests, fileReads, extractCalls, xclip, exit, err>>

\* the filled prompt handed to the clipboard instead of the answer
CopyPromptToClipboard ==
    /\ pc = "clipboard"
    /\ \E o \in ClipOutcomes(prompt) :
       LET c == copy_to_clipboard(prompt, o) IN
       /\ xclip' = c.proc
       /\ pc' = "exited"
       /\ exit' = IF c.res.ok THEN 0 ELSE c.res.code
       /\ err' = IF c.res.ok THEN err ELSE c.res.err
    /\ UNCHANGED <<keySet, argv, input, prompt_template, prompt, response, reworded,
                   requests, fileReads, extractCalls, stdout>>

\* main.rs:78-80: copy, then main returns Ok(()) and the process ends with 0
CopyToClipboard ==
    /\ pc = "clipboard"
    /\ \E o \in ClipOutcomes(reworded) :
       LET c == copy_to_clipboard(reworded, o) IN
       /\ xclip' = c.proc
       /\ pc' = "exited"
       /\ exit' = IF c.res.ok THEN 0 ELSE c.res.code
       /\ err' = IF c.res.ok THEN err ELSE c.res.err
    /\ UNCHANGED <<keySet, argv, input, prompt_template, prompt, response, reworded,
                   requests, fileReads, extractCalls, stdout>>

LoadPromptMain == LoadPrompt(MainTemplates)
SendToChatgptMain == SendToChatgpt(MainDocs)

Next ==
    \/ InitLogger
    \/ TestApiKey
    \/ CliParse
    \/ LoadPromptMain
    \/ FillPrompt
    \/ SendToChatgptMain
    \/ PrintReworded
    \/ CopyToClipboard

Spec == Init /\ [][Next]_vars

\* ---------------------------------------- substitution on its own (C6)
\* the state after a successful key check, with a larger choice of words
\* and templates
InitFill ==
    /\ pc = "cli_parse"
    /\ keySet = TRUE
    /\ argv \in FillArgvs
    /\ input = <<>>
    /\ prompt_template = <<>>
    /\ prompt = <<>>
    /\ response = NoExchange
    /\ reworded = <<>>
    /\ requests = <<GetModels>>
    /\ fileReads = 0
    /\ extractCalls = 0
    /\ stdout = <<Line("models", Ser(ModelsDoc, <<NL, " ">>))>>
    /\ xclip = NoProc
    /\ exit = Running
    /\ err = NoErr

LoadPromptAll == LoadPrompt(Templates)

NextFill ==
    \/ CliParse
    \/ LoadPromptAll
    \/ FillPrompt

SpecFill == InitFill /\ [][NextFill]_vars

\* ------------------------------- the remote call on its own (C2, C7, C8)
\* the state after the prompt "R: fix it" has been filled, with a larger
\* choice of responses
InitSend ==
    /\ pc = "send"
    /\ keySet = TRUE
    /\ argv = <<W_fix, W_it>>
    /\ input = Join(<<W_fix, W_it>>, <<" ">>)
    /\ prompt_template = T_rewrite
    /\ prompt = Replace(T_rewrite, Placeholder, Join(<<W_fix, W_it>>, <<" ">>))
    /\ response = NoExchange
    /\ reworded = <<>>
    /\ requests = <<GetModels>>
    /\ fileReads = 1
    /\ extractCalls = 0
    /\ stdout = <<Line("models", Ser(ModelsDoc, <<NL, " ">>)), Line("stars", <<>>)>>
    /\ xclip = NoProc
    /\ exit = Running
    /\ err = NoErr

SendToChatgptAll == SendToChatgpt(Docs)

NextSend ==
    \/ SendToChatgptAll
    \/ PrintReworded
    \/ CopyToClipboard

SpecSend == InitSend /\ [][NextSend]_vars

\* ------------------------------------------------------------- properties
KeyCheckMsgs == {"CHATGPT_API_KEY not set in environment", "reqwest: send failed",
                 "reqwest: body read failed", "unwrap on a serde_json error",
                 "API key test failed with status"}
ParseMsgs == {"Failed to parse API response as JSON",
              "Failed to extract reworded text from response"}
SendMsgs == {"Failed to send request", "ChatGPT API call failed with status",
             "Failed to read response text"} \cup ParseMsgs
ClipMsgs == {"Failed to start xclip. Is it installed?", "io: write to xclip stdin failed",
             "io: wait failed", "xclip process failed with status"}

Count(seq, P(_)) == Cardinality({i \in DOMAIN seq : P(seq[i])})
IsGet(q) == q.method = "GET"
IsPost(q) == q.method = "POST" /\ q.url = "/v1/chat/completions"
IsResult(l) == l.what = "reworded"
Posted == \E i \in DOMAIN requests : IsPost(requests[i])
Printed == \E i \in DOMAIN stdout : IsResult(stdout[i])
PrintedText == stdout[CHOOSE i \in DOMAIN stdout : IsResult(stdout[i])].text

\* the document is an object whose "choices" is a non-empty list whose first
\* element has a string at message.content
HasContent(d) ==
    /\ d.t = "obj"
    /\ K_choices \in DOMAIN d.o
    /\ d.o[K_choices].t = "arr"
    /\ Len(d.o[K_choices].a) >= 1
    /\ LET c == d.o[K_choices].a[1] IN
       /\ c.t = "obj"
       /\ K_message \in DOMAIN c.o
       /\ c.o[K_message].t = "obj"
       /\ K_content \in DOMAIN c.o[K_message].o
       /\ c.o[K_message].o[K_content].t = "str"
FirstContent(d) == d.o[K_choices].a[1].o[K_message].o[K_content].s
LaterChoiceHasContent(d) ==
    /\ d.t = "obj"
    /\ K_choices \in DOMAIN d.o
    /\ d.o[K_choices].t = "arr"
    /\ \E i \in 2..Len(d.o[K_choices].a) :
          HasContent(JObj(K_choices :> JArr(<<d.o[K_choices].a[i]>>)))
Is2xx(st) == st \in 200..299

\* C1: a failure is fatal.  Once a step has failed the run has ended with a
\* non-zero code and nothing after the failed step has happened: a failed key
\* check leaves no file read, a failure up to the prompt read leaves no POST,
\* a failure up to the remote call leaves nothing printed as the result and
\* no xclip; and no step has run twice.
C1_FailureIsFatal ==
    /\ err # NoErr =>
         /\ pc = "exited"
         /\ exit \notin {Running, 0}
         /\ err.msg \in KeyCheckMsgs => fileReads = 0 /\ input = <<>>
         /\ err.msg \in KeyCheckMsgs \cup {"clap: usage error", "Failed to read prompt file"} =>
              ~Posted /\ prompt = <<>>
         /\ err.msg \notin ClipMsgs => ~Printed /\ ~xclip.spawned /\ xclip = NoProc
         /\ err.msg \in SendMsgs => Posted
    /\ Count(requests, IsGet) <= 1
    /\ Count(requests, IsPost) <= 1
    /\ Count(stdout, IsResult) <= 1
    /\ fileReads <= 1
    /\ extractCalls <= 1

C1_Witness ==
    /\ pc = "exited"
    /\ err.msg = "ChatGPT API call failed with status"
    /\ Posted
    /\ ~Printed

\* C2: after the POST, a non-2xx status gives the API error carrying that
\* status and the body was never parsed; a failed send gives the network
\* error; a readable 2xx body that is not JSON or has no string at
\* choices[0].message.content gives a parse error; and send_to_chatgpt
\* returned a string only for a readable 2xx response with such content.
C2_SendContract ==
    Posted =>
      /\ (response.sendOk /\ ~Is2xx(response.status)) =>
           /\ err = [msg |-> "ChatGPT API call failed with status", status |-> response.status]
           /\ extractCalls = 0
      /\ ~response.sendOk => err.msg = "Failed to send request" /\ extractCalls = 0
      /\ (response.sendOk /\ Is2xx(response.status) /\ response.textOk
            /\ (response.doc = NoDoc \/ ~HasContent(response.doc))) =>
           err.msg \in ParseMsgs
      /\ err.msg \notin SendMsgs =>
           /\ response.sendOk /\ Is2xx(response.status) /\ response.textOk
           /\ response.doc # NoDoc
           /\ HasContent(response.doc)

C2_Witness ==
    /\ Posted
    /\ response.status = 401
    /\ HasContent(response.doc)
    /\ err = [msg |-> "ChatGPT API call failed with status", status |-> 401]

\* C3 (as claimed): the only HTTP request of a run is the one POST to the
\* completions endpoint.
C3_OnlyOnePost ==
    /\ \A i \in DOMAIN requests : IsPost(requests[i])
    /\ Len(requests) <= 1

\* C4 (as claimed): no request goes out before the command line has been
\* parsed and the template read and filled, so a run that ends with the
\* prompt-file error has sent nothing.
C4_NoTrafficBeforePrompt ==
    /\ requests # <<>> => pc \notin {"test_api_key", "cli_parse", "load_prompt", "fill"}
    /\ err.msg = "Failed to read prompt file" => requests = <<>>

\* C5: without the API key the run ends at its first use, with a failure:
\* no file read, no request of either kind, nothing printed, no xclip.
C5_NoKeyAborts ==
    ~keySet =>
      /\ fileReads = 0
      /\ requests = <<>>
      /\ stdout = <<>>
      /\ xclip = NoProc
      /\ \/ pc \in {"init_logger", "test_api_key"}
         \/ pc = "exited" /\ exit = 101
                          /\ err.msg = "CHATGPT_API_KEY not set in environment"

C5_Witness == ~keySet /\ pc = "exited" /\ exit = 101

\* C6: the filled prompt is the template with every occurrence of {input}
\* replaced by the input and every other character kept in place: its length
\* is the template's plus (|input| - 7) per occurrence, a character outside
\* the occurrences sits shifted by that much per occurrence before it, and
\* at every occurrence the input stands in full.  Without an occurrence the
\* prompt is the template; placeholders inside the input are left alone.
Occurrences(t) == {i \in 1..Len(t) : IsPrefixAt(t, Placeholder, i)}
C6_VerbatimSubstitution ==
    pc = "send" =>
      LET t == prompt_template
          occ == Occurrences(t)
          d == Len(input) - Len(Placeholder)
          Shift(i) == i + d * Cardinality({q \in occ : q < i})
          Covered(i) == \E q \in occ : q <= i /\ i < q + Len(Placeholder)
      IN /\ Len(prompt) = Len(t) + d * Cardinality(occ)
         /\ \A i \in 1..Len(t) : ~Covered(i) => prompt[Shift(i)] = t[i]
         /\ \A q \in occ : SubSeq(prompt, Shift(q), Shift(q) + Len(input) - 1) = input
         /\ occ = {} => prompt = t
         /\ input = Placeholder => prompt = t

C6_Witness ==
    /\ pc = "send"
    /\ Cardinality(Occurrences(prompt_template)) >= 2
    /\ Len(prompt_template) > 2 * Len(Placeholder)
    /\ input = Placeholder

\* C7: when the 2xx body is the serialisation of a document whose first
\* choice has the string X at message.content, the extracted text is X,
\* character for character, whatever the later choices are.
C7_FirstChoiceExact ==
    (Posted /\ response.sendOk /\ Is2xx(response.status) /\ response.textOk
       /\ response.doc # NoDoc /\ HasContent(response.doc)) =>
      /\ err.msg \notin SendMsgs
      /\ reworded = FirstContent(response.doc)

C7_Witness ==
    /\ Posted
    /\ response.doc # NoDoc
    /\ HasContent(response.doc)
    /\ Len(response.doc.o[K_choices].a) >= 2
    /\ LaterChoiceHasContent(response.doc)
    /\ FirstContent(response.doc) = X_ws
    /\ reworded = X_ws

\* C8: when the 2xx body is not JSON, or its document has no "choices", a
\* "choices" that is not a list or is empty, or a first choice without a
\* string at message.content, extraction fails with a parse error and no
\* string is returned or printed, even if a later choice has content.
C8_NoSilentDefault ==
    (Posted /\ response.sendOk /\ Is2xx(response.status) /\ response.textOk
       /\ (response.doc = NoDoc \/ ~HasContent(response.doc))) =>
      /\ err.msg \in ParseMsgs
      /\ response.doc = NoDoc <=> err.msg = "Failed to parse API response as JSON"
      /\ pc = "exited"
      /\ reworded = <<>>
      /\ ~Printed

C8_Witness ==
    /\ Posted
    /\ response.doc # NoDoc
    /\ ~HasContent(response.doc)
    /\ LaterChoiceHasContent(response.doc)
    /\ err.msg = "Failed to extract reworded text from response"

\* every step of the pipeline succeeded
AllStepsSucceeded ==
    /\ keySet
    /\ fileReads = 1
    /\ Posted
    /\ response.sendOk /\ Is2xx(response.status) /\ response.textOk
    /\ response.doc # NoDoc
    /\ HasContent(response.doc)
    /\ xclip = Proc(TRUE, FirstContent(response.doc), TRUE, 0)
HelpShown == \E i \in DOMAIN stdout : stdout[i].what \in {"help", "version"}
HelpAsked == \E i \in DOMAIN argv : argv[i] \in {A_help, A_h, A_version, A_V}

C10_PrintThenCopy ==
    /\ xclip.spawned =>
         /\ Printed
         /\ PrintedText = FirstContent(response.doc)
         /\ err.msg # "io: write to xclip stdin failed" => xclip.stdin = PrintedText
         /\ err.msg = "io: write to xclip stdin failed" =>
              /\ Len(xclip.stdin) < Len(PrintedText)
              /\ xclip.stdin = SubSeq(PrintedText, 1, Len(xclip.stdin))
    /\ err.msg \in ClipMsgs => Printed /\ exit # 0 /\ PrintedText = reworded

C10_Witness ==
    /\ err.msg = "xclip process failed with status"
    /\ Printed
    /\ PrintedText = X_ws
    /\ xclip.stdin = X_ws
    /\ exit = 1

====
